---- MODULE Spec2Model ----
(***************************************************************************)
(* Model of pyclip (src/pyclip.py): a command line front end that cuts one *)
(* or more clips out of a media file by running ffmpeg once per pair of    *)
(* timestamps.                                                             *)
(*                                                                         *)
(* Every string of the program (paths, timestamps, arguments of the child  *)
(* process) is a sequence of one-character strings, so that the regular    *)
(* expression, os.path and the f-string formatting are computed character  *)
(* by character.                                                           *)
(***************************************************************************)
EXTENDS Integers, Sequences, FiniteSets, TLC

(***************************************************************************)
(* Bounds of the model.                                                    *)
(***************************************************************************)
\* longest enumerated path string
MaxLen == 3
\* longest enumerated list of timestamp tokens
MaxTokens == 6
\* number of pairs of the longest run (the clip counter then needs 3 digits)
MaxPairs == 101

(***************************************************************************)
(* Strings.                                                                *)
(***************************************************************************)
\* characters of the enumerated paths; NL is the line feed character
NL == "\n"
Chars == {"a", ".", "/", NL}
Strings(n) == UNION {[1..k -> Chars] : k \in 0..n}

Str_ffmpeg == <<"f","f","m","p","e","g">>
Str_loglevel == <<"-","l","o","g","l","e","v","e","l">>
Str_fatal == <<"f","a","t","a","l">>
Str_i == <<"-","i">>
Str_ss == <<"-","s","s">>
Str_to == <<"-","t","o">>
Str_c == <<"-","c">>
Str_copy == <<"c","o","p","y">>
Str_an == <<"-","a","n">>
Str_vn == <<"-","v","n">>
Str_y == <<"-","y">>
Str_n == <<"-","n">>
Str_clip == <<"_","c","l","i","p">>

\* sample command line values
movie_mp4 == <<"m","o","v","i","e",".","m","p","4">>
a_mp4 == <<"a",".","m","p","4">>
result_mkv == <<"r","e","s","u","l","t",".","m","k","v">>
out_slash == <<"o","u","t","/">>
out_noslash == <<"o","u","t">>
dir_result_mkv == <<"d","/","r","e","s","u","l","t",".","m","k","v">>
Tok5 == <<"5">>
Tok10 == <<"1","0">>

\* s[from..to], empty when from > to
Slice(s, from, to) == IF from > to THEN <<>> ELSE SubSeq(s, from, to)

\* str.rfind(c) + 1: position of the last c in s, 0 when there is none
RFind(s, c) ==
    LET hits == {i \in 1..Len(s) : s[i] = c}
    IN IF hits = {} THEN 0 ELSE CHOOSE i \in hits : \A j \in hits : j <= i

\* str.rstrip("/")
RStripSlash(s) ==
    LET keep == {i \in 1..Len(s) : s[i] # "/"}
    IN IF keep = {} THEN <<>>
       ELSE Slice(s, 1, CHOOSE i \in keep : \A j \in keep : j <= i)

\* os.path.basename
Basename(p) == Slice(p, RFind(p, "/") + 1, Len(p))

\* os.path.dirname
Dirname(p) ==
    LET head == Slice(p, 1, RFind(p, "/"))
    IN IF head # <<>> /\ (\E i \in 1..Len(head) : head[i] # "/")
       THEN RStripSlash(head) ELSE head

\* os.path.join(a, b)
PathJoin(a, b) ==
    IF b # <<>> /\ b[1] = "/" THEN b
    ELSE IF a = <<>> \/ a[Len(a)] = "/" THEN a \o b
    ELSE a \o <<"/">> \o b

\* FILENAME_PATTERN.match(s): (?P<name>^.*)\.(?P<extension>.*$)
\* '.' matches any character but the line feed, '^' matches at the start only,
\* '$' matches at the end or right before a line feed that ends the string;
\* both groups are greedy, so the dot is the last one the rest allows.
FILENAME_PATTERN(s) ==
    LET n == Len(s)
        \* '$' holds at position j (0-based offset j, i.e. after j characters)
        AtEnd(j) == j = n \/ (j = n - 1 /\ s[n] = NL)
        NoNL(from, to) == \A k \in from..to : s[k] # NL
        \* the greedy extension starting after the dot at i ends at the first
        \* line feed or at the end of the string
        ExtEnd(i) ==
            LET nls == {k \in (i + 1)..n : s[k] = NL}
            IN IF nls = {} THEN n
               ELSE (CHOOSE k \in nls : \A m \in nls : k <= m) - 1
        dots == {i \in 1..n : s[i] = "." /\ NoNL(1, i - 1) /\ AtEnd(ExtEnd(i))}
    IN IF dots = {} THEN [matched |-> FALSE, name |-> <<>>, extension |-> <<>>]
       ELSE LET i == CHOOSE d \in dots : \A e \in dots : e <= d
            IN [matched |-> TRUE,
                name |-> Slice(s, 1, i - 1),
                extension |-> Slice(s, i + 1, ExtEnd(i))]

\* str(n) for n >= 0
RECURSIVE Digits(_)
Digits(n) ==
    LET d == <<"0","1","2","3","4","5","6","7","8","9">>[(n % 10) + 1]
    IN IF n < 10 THEN <<d>> ELSE Digits(n \div 10) \o <<d>>

\* f"{n:02}": decimal, padded with zeros to at least two characters
Format02(n) == IF n < 10 THEN <<"0">> \o Digits(n) ELSE Digits(n)

(***************************************************************************)
(* Pure parts of main() and clip().                                        *)
(***************************************************************************)
\* a count test that forgets the empty list
MismatchedTimestampsOddOnly(n) == n % 2 # 0

\* the test of line 146
MismatchedTimestamps(n) == n < 2 \/ n % 2 # 0

\* a pairing that ties every token to its successor
ZipPairsOverlapping(ts) == [k \in 1..(Len(ts) \div 2) |-> <<ts[k], ts[k + 1]>>]

\* zip(arg_timestamps, arg_timestamps) over one iterator: consecutive pairs,
\* a last unpaired token is dropped
ZipPairs(ts) == [k \in 1..(Len(ts) \div 2) |-> <<ts[2 * k - 1], ts[2 * k]>>]

\* a numbering that starts at zero
OutfileForZeroBased(name, ext, nb, total) ==
    IF total > 1
    THEN name \o <<"_">> \o Format02(nb - 1) \o <<".">> \o ext
    ELSE name \o <<".">> \o ext

\* a numbering that keeps the last two digits of the counter only
OutfileForTwoDigits(name, ext, nb, total) ==
    IF total > 1
    THEN name \o <<"_">> \o Format02(nb % 100) \o <<".">> \o ext
    ELSE name \o <<".">> \o ext

\* lines 180-183
OutfileFor(name, ext, nb, total) ==
    IF total > 1
    THEN name \o <<"_">> \o Format02(nb) \o <<".">> \o ext
    ELSE name \o <<".">> \o ext

\* an argument list with the stream flags ahead of the copy flag
ClipCommandFlagsFirst(infile, outfile, start_timestamp, end_timestamp, no_audio, no_video, overwrite, copy) ==
    <<Str_ffmpeg, Str_loglevel, Str_fatal, Str_i, infile,
      Str_ss, start_timestamp, Str_to, end_timestamp>>
    \o (IF no_audio THEN <<Str_an>> ELSE <<>>)
    \o (IF no_video THEN <<Str_vn>> ELSE <<>>)
    \o (IF copy THEN <<Str_c, Str_copy>> ELSE <<>>)
    \o (IF overwrite THEN <<Str_y>> ELSE <<Str_n>>)
    \o <<outfile>>

\* clip(), lines 98-110: the argument list handed to subprocess.run
ClipCommand(infile, outfile, start_timestamp, end_timestamp, no_audio, no_video, overwrite, copy) ==
    <<Str_ffmpeg, Str_loglevel, Str_fatal, Str_i, infile,
      Str_ss, start_timestamp, Str_to, end_timestamp>>
    \o (IF copy THEN <<Str_c, Str_copy>> ELSE <<>>)
    \o (IF no_audio THEN <<Str_an>> ELSE <<>>)
    \o (IF no_video THEN <<Str_vn>> ELSE <<>>)
    \o (IF overwrite THEN <<Str_y>> ELSE <<Str_n>>)
    \o <<outfile>>

\* subprocess.run without check = True: the return code is ignored
CheckRaisesNever(status) == FALSE

\* a check that takes only a death by signal (negative code) for a failure
CheckRaisesOnSignal(status) == status < 0

\* subprocess.run(..., check = True): a non-zero return code raises
\* CalledProcessError
CheckRaises(status) == status # 0

\* lines 159-172: the resolved (name, extension), or the parser error
ResolveOutput(infile, has_outfile, outfile, isdir) ==
    IF ~has_outfile \/ isdir
    THEN LET infile_match == FILENAME_PATTERN(Basename(infile))
             stem == infile_match.name \o Str_clip
         IN [ok |-> infile_match.matched,
             match |-> [subject |-> Basename(infile)] @@ infile_match,
             outfile_name |-> IF has_outfile THEN PathJoin(outfile, stem)
                              ELSE stem,
             outfile_ext |-> infile_match.extension,
             message |-> "Output file name could not be generated from input file"]
    ELSE LET outfile_match == FILENAME_PATTERN(Basename(outfile))
         IN [ok |-> outfile_match.matched,
             match |-> [subject |-> Basename(outfile)] @@ outfile_match,
             outfile_name |-> PathJoin(Dirname(outfile), outfile_match.name),
             outfile_ext |-> outfile_match.extension,
             message |-> "Output file name could not be parsed"]

(***************************************************************************)
(* Command lines the model runs.                                           *)
(***************************************************************************)
\* exit statuses of the child process
ExitStatuses == {0, 1, 255}

TokenSet == {Tok5, Tok10}
TokenSeqs(n) == UNION {[1..k -> TokenSet] : k \in 0..n}

\* n tokens "1", "2", ..., "n" and the same in decreasing order
Ascending(n) == [k \in 1..n |-> Digits(k)]
Descending(n) == [k \in 1..n |-> Digits(n + 1 - k)]

Args(infile, has_outfile, outfile, noaudio, novideo, overwrite, copy, ts) ==
    [infile |-> infile, has_outfile |-> has_outfile, outfile |-> outfile,
     noaudio |-> noaudio, novideo |-> novideo, overwrite |-> overwrite,
     copy |-> copy, timestamps |-> ts]

NoOutfile == [given |-> FALSE, path |-> <<>>, isdir |-> FALSE]
\* os.path.isdir("") is false; any other path may or may not be a directory
Outfiles(paths) ==
    {[given |-> TRUE, path |-> p, isdir |-> d] :
        p \in paths, d \in BOOLEAN} \ {[given |-> TRUE, path |-> <<>>, isdir |-> TRUE]}

SampleInfiles == {movie_mp4, a_mp4}
SampleOutfiles ==
    {NoOutfile} \cup Outfiles({result_mkv, out_slash, out_noslash, dir_result_mkv})
SampleTimestamps == {<<Tok5>>, <<Tok5, Tok10>>, <<Tok10, Tok5, Tok5, Tok10>>}

Launch(infile, o, noaudio, novideo, overwrite, copy, ts) ==
    [args |-> Args(infile, o.given, o.path, noaudio, novideo, overwrite, copy, ts),
     isdir |-> o.isdir]

\* every short path as the input, and every short path as the output
NameLaunches ==
    {Launch(i, o, FALSE, FALSE, FALSE, FALSE, ts) :
        i \in Strings(MaxLen), o \in SampleOutfiles, ts \in SampleTimestamps}
    \cup
    {Launch(i, o, FALSE, FALSE, FALSE, FALSE, ts) :
        i \in SampleInfiles \cup {<<"a">>}, o \in Outfiles(Strings(MaxLen)),
        ts \in SampleTimestamps}

\* every combination of the four flags
FlagLaunches ==
    {Launch(i, o, f[1], f[2], f[3], f[4], ts) :
        i \in SampleInfiles, o \in SampleOutfiles,
        f \in [1..4 -> BOOLEAN], ts \in SampleTimestamps}

\* every short list of timestamp tokens
TokenLaunches ==
    {Launch(i, o, FALSE, FALSE, FALSE, FALSE, ts) :
        i \in {movie_mp4}, o \in {NoOutfile}, ts \in TokenSeqs(MaxTokens)}

\* long runs
LongLaunches ==
    {Launch(i, o, FALSE, FALSE, ow, FALSE, ts) :
        i \in {movie_mp4}, o \in {NoOutfile}, ow \in BOOLEAN,
        ts \in {Ascending(2 * MaxPairs), Descending(2 * MaxPairs - 2),
                Ascending(2 * MaxPairs - 1)}}

Launches == NameLaunches \cup FlagLaunches \cup TokenLaunches \cup LongLaunches

(***************************************************************************)
(* State.                                                                  *)
(***************************************************************************)
VARIABLES
    args,           \* the parsed command line (line 142)
    outfile_isdir,  \* what os.path.isdir(args.outfile) answers
    pc,             \* position of main()
    clip_nb,        \* line 152
    clip_total,     \* line 153
    timestamps,     \* the pairs the zip iterator has not yielded yet
    file_match,     \* infile_match / outfile_match (lines 160, 168) and the
                    \* string it was matched against
    outfile_name,   \* lines 163-165, 171
    outfile_ext,    \* lines 166, 172
    warnings,       \* number of logger.warning calls (line 175)
    invocations,    \* argument lists of the child processes started, in order
    running,        \* indices of the child processes that have not exited
    returncode,     \* index of an exited child process -> its exit status
    error,          \* message of clparser.error, or the exception raised
    exit_status     \* exit status of the program, -1 until it exits

vars == <<args, outfile_isdir, pc, clip_nb, clip_total, timestamps,
          file_match, outfile_name, outfile_ext, warnings, invocations, running,
          returncode, error, exit_status>>

NoError == [text |-> "", value |-> <<>>]
NoMatch == [subject |-> <<>>, matched |-> FALSE, name |-> <<>>, extension |-> <<>>]

Init ==
    /\ \E l \in Launches : args = l.args /\ outfile_isdir = l.isdir
    /\ pc = "check_timestamps"
    /\ clip_nb = 0
    /\ clip_total = 0
    /\ timestamps = <<>>
    /\ file_match = NoMatch
    /\ outfile_name = <<>>
    /\ outfile_ext = <<>>
    /\ warnings = 0
    /\ invocations = <<>>
    /\ running = {}
    /\ returncode = <<>>
    /\ error = NoError
    /\ exit_status = -1

\* clparser.error(message): prints the message and exits with status 2
ParserError(text, value) ==
    /\ pc' = "exited"
    /\ error' = [text |-> text, value |-> value]
    /\ exit_status' = 2

\* lines 146-153
CheckTimestamps ==
    /\ pc = "check_timestamps"
    /\ IF MismatchedTimestamps(Len(args.timestamps))
       THEN /\ ParserError("Mismatched number of timestamps : ",
                           Digits(Len(args.timestamps)))
            /\ UNCHANGED <<clip_nb, clip_total, timestamps>>
       ELSE /\ timestamps' = ZipPairs(args.timestamps)
            /\ clip_nb' = 1
            /\ clip_total' = Len(args.timestamps) \div 2
            /\ pc' = "resolve"
            /\ UNCHANGED <<error, exit_status>>
    /\ UNCHANGED <<args, outfile_isdir, file_match, outfile_name, outfile_ext,
                   warnings, invocations, running, returncode>>

\* lines 155-175
Resolve ==
    /\ pc = "resolve"
    /\ LET r == ResolveOutput(args.infile, args.has_outfile, args.outfile,
                              outfile_isdir)
       IN /\ file_match' = r.match
          /\ IF ~r.ok
             THEN /\ ParserError(r.message, <<>>)
                  /\ UNCHANGED <<outfile_name, outfile_ext, warnings>>
             ELSE /\ outfile_name' = r.outfile_name
                  /\ outfile_ext' = r.outfile_ext
                  /\ warnings' = IF args.noaudio /\ args.novideo
                                 THEN warnings + 1 ELSE warnings
                  /\ pc' = "loop"
                  /\ UNCHANGED <<error, exit_status>>
    /\ UNCHANGED <<args, outfile_isdir, clip_nb, clip_total, timestamps,
                   invocations, running, returncode>>

\* a start of the child process that does not wait for it (Popen)
SpawnClipNoWait ==
    /\ pc = "loop"
    /\ timestamps # <<>>
    /\ LET start == Head(timestamps)[1]
           end == Head(timestamps)[2]
           outfile == OutfileFor(outfile_name, outfile_ext, clip_nb, clip_total)
       IN invocations' = Append(invocations,
              ClipCommand(args.infile, outfile, start, end, args.noaudio,
                          args.novideo, args.overwrite, args.copy))
    /\ timestamps' = Tail(timestamps)
    /\ clip_nb' = clip_nb + 1
    /\ running' = running \cup {Len(invocations) + 1}
    /\ pc' = "loop"
    /\ UNCHANGED <<args, outfile_isdir, clip_total, file_match, outfile_name,
                   outfile_ext, warnings, returncode, error, exit_status>>

\* lines 177-186 and 98-111 up to the start of the child process:
\* subprocess.run starts ffmpeg and blocks until it exits
SpawnClip ==
    /\ pc = "loop"
    /\ timestamps # <<>>
    /\ LET start == Head(timestamps)[1]
           end == Head(timestamps)[2]
           outfile == OutfileFor(outfile_name, outfile_ext, clip_nb, clip_total)
       IN invocations' = Append(invocations,
              ClipCommand(args.infile, outfile, start, end, args.noaudio,
                          args.novideo, args.overwrite, args.copy))
    /\ timestamps' = Tail(timestamps)
    /\ clip_nb' = clip_nb + 1
    /\ running' = running \cup {Len(invocations) + 1}
    /\ pc' = "wait"
    /\ UNCHANGED <<args, outfile_isdir, clip_total, file_match, outfile_name,
                   outfile_ext, warnings, returncode, error, exit_status>>

\* the same lines when ffmpeg cannot be started (not on the search path):
\* subprocess.run raises OSError, nothing catches it, the interpreter exits 1
SpawnFails ==
    /\ pc = "loop"
    /\ timestamps # <<>>
    /\ timestamps' = Tail(timestamps)
    /\ clip_nb' = clip_nb + 1
    /\ pc' = "exited"
    /\ error' = [text |-> "OSError", value |-> <<>>]
    /\ exit_status' = 1
    /\ UNCHANGED <<args, outfile_isdir, clip_total, file_match, outfile_name,
                   outfile_ext, warnings, invocations, running, returncode>>

\* line 111: the child process exits and subprocess.run returns or raises
TranscoderExit ==
    /\ pc = "wait"
    /\ \E p \in running, status \in ExitStatuses :
        /\ running' = running \ {p}
        /\ returncode' = returncode @@ (p :> status)
        /\ IF CheckRaises(status)
           THEN /\ pc' = "exited"
                /\ error' = [text |-> "CalledProcessError",
                             value |-> Digits(status)]
                /\ exit_status' = 1
           ELSE /\ pc' = "loop"
                /\ UNCHANGED <<error, exit_status>>
    /\ UNCHANGED <<args, outfile_isdir, clip_nb, clip_total, timestamps,
                   file_match, outfile_name, outfile_ext, warnings, invocations>>

\* lines 177 and 190: the loop is exhausted, main() returns None and
\* SystemExit(None) ends the program with status 0
MainReturns ==
    /\ pc = "loop"
    /\ timestamps = <<>>
    /\ pc' = "exited"
    /\ exit_status' = 0
    /\ UNCHANGED <<args, outfile_isdir, clip_nb, clip_total, timestamps,
                   file_match, outfile_name, outfile_ext, warnings, invocations,
                   running, returncode, error>>

Next ==
    \/ CheckTimestamps
    \/ Resolve
    \/ SpawnClip
    \/ SpawnFails
    \/ TranscoderExit
    \/ MainReturns

Spec == Init /\ [][Next]_vars

(***************************************************************************)
(* Properties.                                                             *)
(***************************************************************************)
\* number of timestamp tokens and of pairs on the command line
NbTokens == Len(args.timestamps)
T == NbTokens \div 2
Last(seq) == seq[Len(seq)]
HasDot(s) == \E i \in 1..Len(s) : s[i] = "."
HasNL(s) == \E i \in 1..Len(s) : s[i] = NL
\* the file name the run has to decompose
DecomposedName ==
    IF ~args.has_outfile \/ outfile_isdir
    THEN Basename(args.infile) ELSE Basename(args.outfile)
\* a file name split at its last dot
NamePart(s) == Slice(s, 1, RFind(s, ".") - 1)
ExtensionPart(s) == Slice(s, RFind(s, ".") + 1, Len(s))
\* the output resolution went through
Resolved == pc \in {"loop", "wait"} \/ (pc = "exited" /\ exit_status # 2)
\* i written in decimal with at least two digits, by place value
TwoDigits(i) ==
    LET D(x) == <<"0","1","2","3","4","5","6","7","8","9">>[x + 1]
    IN IF i < 100 THEN <<D(i \div 10), D(i % 10)>>
       ELSE <<D(i \div 100), D((i \div 10) % 10), D(i % 10)>>
\* the output path the i-th clip is to get
ExpectedOutput(i) ==
    IF T > 1
    THEN outfile_name \o <<"_">> \o TwoDigits(i) \o <<".">> \o outfile_ext
    ELSE outfile_name \o <<".">> \o outfile_ext
BoolToNat(b) == IF b THEN 1 ELSE 0

\* C1: once the transcoder invocation for clip i has exited with a non-zero
\* status, no invocation for a later clip exists, clip i is not invoked
\* again, and the run has ended with a non-zero exit status.
C1_FailureAborts ==
    \A i \in DOMAIN returncode :
        returncode[i] # 0 =>
            /\ Len(invocations) = i
            /\ running = {}
            /\ pc = "exited"
            /\ exit_status # 0

C1_Witness ==
    /\ T = 3
    /\ 2 \in DOMAIN returncode
    /\ returncode[2] # 0
    /\ Len(invocations) = 2
    /\ Len(timestamps) = 1
    /\ pc = "exited"

\* C2: when the number of timestamp tokens is odd or below 2, or the file
\* name to decompose has no dot, the run never reaches the clip loop, starts
\* no transcoder, and when it has ended its exit status is not zero.
C2_PreFlight ==
    (NbTokens % 2 # 0 \/ NbTokens < 2 \/ ~HasDot(DecomposedName)) =>
        /\ invocations = <<>>
        /\ running = {}
        /\ pc \in {"check_timestamps", "resolve", "exited"}
        /\ pc = "resolve" => (NbTokens % 2 = 0 /\ NbTokens >= 2)
        /\ exit_status # 0
        /\ pc = "exited" => exit_status > 0

C2_Witness ==
    /\ pc = "exited"
    /\ exit_status = 2
    /\ NbTokens = 4
    /\ args.has_outfile /\ ~outfile_isdir
    /\ args.outfile = out_slash
    /\ ~HasDot(DecomposedName)
    /\ invocations = <<>>

\* C3: an even, non-empty token list gives exactly T pairs, the k-th being
\* tokens 2k-1 and 2k, and the k-th invocation gets them unchanged after -ss
\* and -to; an odd or empty list is rejected with its length in the message.
C3_Pairing ==
    /\ (NbTokens % 2 = 0 /\ NbTokens > 0 /\ pc # "check_timestamps") =>
        /\ clip_total = T
        /\ Len(timestamps) + (clip_nb - 1) = T
        /\ \A j \in 1..Len(timestamps) :
              timestamps[j] = <<args.timestamps[2 * (clip_nb - 1 + j) - 1],
                                args.timestamps[2 * (clip_nb - 1 + j)]>>
        /\ Len(invocations) <= T
        /\ \A k \in 1..Len(invocations) :
              /\ invocations[k][6] = Str_ss
              /\ invocations[k][7] = args.timestamps[2 * k - 1]
              /\ invocations[k][8] = Str_to
              /\ invocations[k][9] = args.timestamps[2 * k]
    /\ ((NbTokens % 2 = 1 \/ NbTokens = 0) /\ pc # "check_timestamps") =>
        /\ pc = "exited"
        /\ error = [text |-> "Mismatched number of timestamps : ",
                    value |-> Digits(NbTokens)]
        /\ invocations = <<>>

C3_Witness ==
    /\ args.timestamps = <<Tok10, Tok5, Tok5, Tok10>>
    /\ Len(invocations) = 2
    /\ invocations[1][7] = Tok10 /\ invocations[1][9] = Tok5
    /\ invocations[2][7] = Tok5 /\ invocations[2][9] = Tok10
    /\ pc = "exited"
    /\ exit_status = 0

\* C4: the output path of the i-th invocation is the resolved base name, "_",
\* i in two digits, ".", the resolved extension when T > 1, and base name,
\* ".", extension when T = 1; the counter is 1 before the first pair and
\* grows by one per pair taken.
C4_OutputNumbering ==
    /\ \A i \in 1..Len(invocations) :
          Last(invocations[i]) = ExpectedOutput(i)
    /\ (pc \in {"resolve", "loop"} /\ Len(timestamps) = T) => clip_nb = 1
    /\ pc \in {"loop", "wait"} => clip_nb = Len(invocations) + 1
    /\ (args.infile = movie_mp4 /\ ~args.has_outfile /\ T = 2
            /\ Len(invocations) = 2) =>
          /\ Last(invocations[1]) =
                <<"m","o","v","i","e","_","c","l","i","p","_","0","1",".","m","p","4">>
          /\ Last(invocations[2]) =
                <<"m","o","v","i","e","_","c","l","i","p","_","0","2",".","m","p","4">>
    /\ (args.infile = movie_mp4 /\ ~args.has_outfile /\ T = 1
            /\ Len(invocations) = 1) =>
          Last(invocations[1]) =
                <<"m","o","v","i","e","_","c","l","i","p",".","m","p","4">>

C4_Witness ==
    /\ args.infile = movie_mp4
    /\ ~args.has_outfile
    /\ T = 2
    /\ Len(invocations) = 2
    /\ clip_nb = 3
    /\ pc = "loop"

\* C5: every argument list is ffmpeg -loglevel fatal -i input -ss start -to
\* end, then "-c" "copy" iff copy, then "-an" iff no audio, then "-vn" iff no
\* video, then "-y" when overwriting and "-n" otherwise, then the output
\* path, and nothing else.
C5_ArgumentList ==
    /\ \A k \in 1..Len(invocations) :
        LET c == invocations[k]
            nc == 2 * BoolToNat(args.copy)
            na == BoolToNat(args.noaudio)
            nv == BoolToNat(args.novideo)
        IN /\ Len(c) = 9 + nc + na + nv + 2
           /\ SubSeq(c, 1, 9) =
                 <<Str_ffmpeg, Str_loglevel, Str_fatal, Str_i, args.infile,
                   Str_ss, args.timestamps[2 * k - 1],
                   Str_to, args.timestamps[2 * k]>>
           /\ args.copy => (c[10] = Str_c /\ c[11] = Str_copy)
           /\ args.noaudio => c[10 + nc] = Str_an
           /\ args.novideo => c[10 + nc + na] = Str_vn
           /\ c[Len(c) - 1] = IF args.overwrite THEN Str_y ELSE Str_n
           /\ c[Len(c)] = ExpectedOutput(k)
    /\ (/\ args.infile = a_mp4 /\ ~args.has_outfile
        /\ args.timestamps = <<Tok5, Tok10>>
        /\ args.copy /\ args.noaudio /\ ~args.novideo /\ ~args.overwrite
        /\ Len(invocations) = 1) =>
          invocations[1] =
             <<Str_ffmpeg, Str_loglevel, Str_fatal, Str_i, a_mp4, Str_ss, Tok5,
               Str_to, Tok10, Str_c, Str_copy, Str_an, Str_n,
               <<"a","_","c","l","i","p",".","m","p","4">>>>

C5_Witness ==
    /\ args.infile = a_mp4 /\ ~args.has_outfile
    /\ args.timestamps = <<Tok5, Tok10>>
    /\ args.copy /\ args.noaudio /\ ~args.novideo /\ ~args.overwrite
    /\ Len(invocations) = 1

\* C6: once the output is resolved, with no output path or an existing
\* directory the base name is the input basename's name part plus "_clip"
\* (joined under the directory when given) and the extension is the input
\* basename's extension; otherwise the base name is the output path's
\* directory joined with its basename's name part and the extension is the
\* output basename's extension.
C6_Resolution ==
    Resolved =>
        IF ~args.has_outfile \/ outfile_isdir
        THEN /\ outfile_name =
                   IF args.has_outfile
                   THEN PathJoin(args.outfile,
                                 NamePart(Basename(args.infile)) \o Str_clip)
                   ELSE NamePart(Basename(args.infile)) \o Str_clip
             /\ outfile_ext = ExtensionPart(Basename(args.infile))
        ELSE /\ outfile_name = PathJoin(Dirname(args.outfile),
                                        NamePart(Basename(args.outfile)))
             /\ outfile_ext = ExtensionPart(Basename(args.outfile))

\* C7: a file name with at least one dot is decomposed at its last dot: the
\* extension holds no dot and name, ".", extension give the file name back;
\* a file name with no dot is not decomposed.
C7_RoundTrip ==
    pc \in {"loop", "wait", "exited"} /\ error.text # "Mismatched number of timestamps : " =>
        IF HasDot(file_match.subject)
        THEN /\ file_match.matched
             /\ ~HasDot(file_match.extension)
             /\ file_match.name \o <<".">> \o file_match.extension
                    = file_match.subject
        ELSE ~file_match.matched

\* C8: an exit status of zero means that exactly T invocations were made and
\* each exited with status 0; a bad token count, a file name without a dot
\* or a non-zero transcoder exit end the run with a non-zero status.
C8_ExitStatus ==
    /\ exit_status = 0 =>
        /\ pc = "exited"
        /\ NbTokens = 2 * T /\ T >= 1
        /\ Len(invocations) = T
        /\ running = {}
        /\ DOMAIN returncode = 1..T
        /\ \A k \in 1..T : returncode[k] = 0
    /\ (/\ pc = "exited"
        /\ \/ NbTokens % 2 # 0 \/ NbTokens < 2
           \/ ~HasDot(DecomposedName)
           \/ \E k \in DOMAIN returncode : returncode[k] # 0) =>
        exit_status > 0

C8_Witness ==
    /\ pc = "exited"
    /\ exit_status = 0
    /\ T = 3
    /\ Len(invocations) = 3
    /\ \A k \in 1..3 : returncode[k] = 0

\* C9: at most one transcoder process runs at any time, and when an
\* invocation exists every earlier one has already exited with status 0.
C9_Sequential ==
    /\ Cardinality(running) <= 1
    /\ running \subseteq {Len(invocations)}
    /\ \A k \in 1..(Len(invocations) - 1) :
          /\ k \notin running
          /\ k \in DOMAIN returncode
          /\ returncode[k] = 0
    /\ pc = "wait" <=> running # {}

C9_Witness ==
    /\ Len(invocations) = 3
    /\ running = {3}
    /\ returncode[1] = 0 /\ returncode[2] = 0
    /\ pc = "wait"

\* C10: the output paths of the invocations of one run are pairwise
\* different.
C10_DistinctOutputs ==
    \A i \in 1..Len(invocations) : \A j \in (i + 1)..Len(invocations) :
        Last(invocations[i]) # Last(invocations[j])

C10_Witness ==
    /\ Len(invocations) > 100
    /\ ~args.overwrite
    /\ pc = "wait"

====
